---------------------------- MODULE Spec2Model ----------------------------
(***************************************************************************)
(* A model of backend/server.js: an Express relay in front of the external *)
(* extraction tool (youtube-dl-exec).  The state is the process-wide       *)
(* rate-limit map, the wall clock read by Date.now(), the download         *)
(* directory, the startup clean-up in flight, and the requests in flight   *)
(* with the tool invocations, file stream and response of each.            *)
(*                                                                         *)
(* Node runs every handler and callback to completion on one thread, so    *)
(* one action is one handler run up to its next await, or one callback.    *)
(***************************************************************************)
EXTENDS Integers, Sequences, FiniteSets, TLC

(***************************************************************************)
(* Program constants                                                       *)
(***************************************************************************)
RATE_LIMIT_WINDOW_MS == 15 * 60 * 1000

RATE_LIMIT_MAX == 10

(***************************************************************************)
(* Bounds of the model                                                     *)
(***************************************************************************)
\* requests whose handling has started and whose record is still kept
MaxInFlight == 2

\* how many times the clock is advanced in one behaviour
MaxTicks == 2

\* gated requests of one address that are followed past its quota, per window
MaxOver == 1

Reqs == 1..MaxInFlight

Addrs == {"10.0.0.1", "10.0.0.2"}

\* the relay is followed for the requests of one address, the clock standing still
Client == "10.0.0.1"

\* the clock moves by a millisecond or by a whole window
TickSteps == {1, RATE_LIMIT_WINDOW_MS}

\* file names crypto.randomBytes can make in this run
NewFileIds == {"a1b2.mp4", "c3d4.mp4"}

\* files left in the download directory by a previous run
OldFiles == {"0e0f.mp4"}

(***************************************************************************)
(* Strings the code searches in are sequences of characters.               *)
(***************************************************************************)
Includes(s, p) ==
    \E i \in 1..(Len(s) - Len(p) + 1) : SubSeq(s, i, i + Len(p) - 1) = p

P_VideoUnavailable == <<"V", "i", "d", "e", "o", " ", "u", "n", "a", "v", "a", "i", "l", "a", "b", "l", "e">>

P_ThisVideoIsNotAvailable == <<"T", "h", "i", "s", " ", "v", "i", "d", "e", "o", " ", "i", "s", " ", "n", "o", "t", " ", "a", "v", "a", "i", "l", "a", "b", "l", "e">>

\* messages the tool fails with (yt-dlp's wording)
M_Unavailable == <<"E", "R", "R", "O", "R", ":", " ", "V", "i", "d", "e", "o", " ", "u", "n", "a", "v", "a", "i", "l", "a", "b", "l", "e">>

M_NotAvailable == <<"E", "R", "R", "O", "R", ":", " ", "T", "h", "i", "s", " ", "v", "i", "d", "e", "o", " ", "i", "s", " ", "n", "o", "t", " ", "a", "v", "a", "i", "l", "a", "b", "l", "e">>

M_FormatNotAvailable == <<"R", "e", "q", "u", "e", "s", "t", "e", "d", " ", "f", "o", "r", "m", "a", "t", " ", "i", "s", " ", "n", "o", "t", " ", "a", "v", "a", "i", "l", "a", "b", "l", "e">>

NoMessage == <<>>

ToolMessages == {M_Unavailable, M_NotAvailable, M_FormatNotAvailable}

H_youtube_com == <<"y", "o", "u", "t", "u", "b", "e", ".", "c", "o", "m">>

H_youtu_be == <<"y", "o", "u", "t", "u", ".", "b", "e">>

H_twitter_com == <<"t", "w", "i", "t", "t", "e", "r", ".", "c", "o", "m">>

H_x_com == <<"x", ".", "c", "o", "m">>

H_instagram_com == <<"i", "n", "s", "t", "a", "g", "r", "a", "m", ".", "c", "o", "m">>

H_facebook_com == <<"f", "a", "c", "e", "b", "o", "o", "k", ".", "c", "o", "m">>

H_fb_com == <<"f", "b", ".", "c", "o", "m">>

(***************************************************************************)
(* The url query parameter, by what `new URL(url)` makes of it: absent (or *)
(* empty), not parseable, or parsed to a lower-case hostname.              *)
(***************************************************************************)
UrlAbsent == [kind |-> "absent", hostname |-> <<>>]

UrlMalformed == [kind |-> "malformed", hostname |-> <<>>]

UrlYoutube ==
    [kind |-> "parsed",
     hostname |-> <<"w", "w", "w", ".", "y", "o", "u", "t", "u", "b", "e", ".", "c", "o", "m">>]

UrlExample ==
    [kind |-> "parsed",
     hostname |-> <<"e", "x", "a", "m", "p", "l", "e", ".", "c", "o", "m">>]

UrlYoutuBe == [kind |-> "parsed", hostname |-> H_youtu_be]

UrlTwitter == [kind |-> "parsed", hostname |-> H_twitter_com]

UrlX == [kind |-> "parsed", hostname |-> H_x_com]

UrlInstagram ==
    [kind |-> "parsed", hostname |-> <<"w", "w", "w", ".">> \o H_instagram_com]

UrlFacebook == [kind |-> "parsed", hostname |-> <<"m", ".">> \o H_facebook_com]

UrlFb == [kind |-> "parsed", hostname |-> H_fb_com]

\* a host of none of the platforms whose name holds "x.com"
UrlNetflix ==
    [kind |-> "parsed", hostname |-> <<"n", "e", "t", "f", "l", "i", "x", ".", "c", "o", "m">>]

Urls ==
    {UrlAbsent, UrlMalformed, UrlYoutube, UrlExample, UrlYoutuBe, UrlTwitter, UrlX,
     UrlInstagram, UrlFacebook, UrlFb, UrlNetflix}

RelayUrls == {UrlAbsent, UrlYoutube, UrlExample}

NoPlatform == "null"

\* variant: only the long names of the platforms are looked for
detectPlatform_LongNames(url) ==
    IF url.kind = "absent" THEN NoPlatform
    ELSE IF url.kind = "malformed" THEN NoPlatform
    ELSE IF Includes(url.hostname, H_youtube_com) THEN "youtube"
    ELSE IF Includes(url.hostname, H_twitter_com) THEN "twitter"
    ELSE IF Includes(url.hostname, H_instagram_com) THEN "instagram"
    ELSE IF Includes(url.hostname, H_facebook_com) THEN "facebook"
    ELSE NoPlatform

detectPlatform(url) ==
    IF url.kind = "absent" THEN NoPlatform
    ELSE IF url.kind = "malformed" THEN NoPlatform
    ELSE IF Includes(url.hostname, H_youtube_com) \/ Includes(url.hostname, H_youtu_be)
        THEN "youtube"
    ELSE IF Includes(url.hostname, H_twitter_com) \/ Includes(url.hostname, H_x_com)
        THEN "twitter"
    ELSE IF Includes(url.hostname, H_instagram_com) THEN "instagram"
    ELSE IF Includes(url.hostname, H_facebook_com) \/ Includes(url.hostname, H_fb_com)
        THEN "facebook"
    ELSE NoPlatform


(***************************************************************************)
(* The formats of /info.  An entry of info.formats is a record of the      *)
(* fields the code reads; quality is <<>> when the tool gave none, <<n>>   *)
(* when it gave n.  A field an object does not have reads as undefined.    *)
(***************************************************************************)
\* how long a formats list of the tool is followed
MaxFormats == 3

Undefined == "undefined"

Field(o, f) == IF f \in DOMAIN o THEN o[f] ELSE Undefined

F18 == [format_id |-> "18", ext |-> "mp4", vcodec |-> "avc1", acodec |-> "mp4a", quality |-> <<2>>]

F22 == [format_id |-> "22", ext |-> "mp4", vcodec |-> "avc1", acodec |-> "mp4a", quality |-> <<>>]

F59 == [format_id |-> "59", ext |-> "mp4", vcodec |-> "avc1", acodec |-> "mp4a", quality |-> <<0>>]

F137 == [format_id |-> "137", ext |-> "mp4", vcodec |-> "avc1", acodec |-> "none", quality |-> <<2>>]

F43 == [format_id |-> "43", ext |-> "webm", vcodec |-> "vp8", acodec |-> "vorbis", quality |-> <<1>>]

F140 == [format_id |-> "140", ext |-> "m4a", vcodec |-> "none", acodec |-> "mp4a", quality |-> <<1>>]

FormatPool == {F18, F22, F59, F137, F43, F140}

\* the lists of different entries of the pool, up to MaxFormats long
FormatLists ==
    {l \in UNION {[1..n -> FormatPool] : n \in 0..MaxFormats} :
        \A i, j \in 1..Len(l) : i # j => l[i] # l[j]}

\* the tool's document: hasFormats, it has a formats list; url, it has a
\* (truthy) url of its own
ToolResults ==
    {[hasFormats |-> TRUE, formats |-> l, url |-> u] : l \in FormatLists, u \in BOOLEAN}
        \cup {[hasFormats |-> FALSE, formats |-> <<>>, url |-> u] : u \in BOOLEAN}

\* the two documents the relay is followed with
RelayResults ==
    {[hasFormats |-> TRUE, formats |-> <<F43, F18>>, url |-> TRUE],
     [hasFormats |-> FALSE, formats |-> <<>>, url |-> TRUE]}

NoInfo == [hasFormats |-> FALSE, formats |-> <<>>, url |-> FALSE]

\* format.ext === 'mp4' && format.vcodec !== 'none' && format.acodec !== 'none'
youtubeFilter(format) ==
    /\ Field(format, "ext") = "mp4"
    /\ Field(format, "vcodec") # "none"
    /\ Field(format, "acodec") # "none"

\* format.ext === 'mp4' || format.ext === 'webm'
otherFilter(format) == Field(format, "ext") = "mp4" \/ Field(format, "ext") = "webm"

\* format.quality || 0
QualityOr0(format) == IF format.quality = <<>> THEN 0 ELSE format.quality[1]

\* .map(format => ({formatId, quality, ...})): the descriptor sent to the
\* client; its display fields (qualityLabel, resolution, filesize) are left
\* out, and it has none of ext, vcodec, acodec
Descriptor(format) == [formatId |-> format.format_id, quality |-> QualityOr0(format)]

Descriptors(list) == [i \in 1..Len(list) |-> Descriptor(list[i])]

\* x put into a list sorted by b.quality - a.quality, behind its equals
RECURSIVE Insert(_, _)
Insert(x, list) ==
    IF list = <<>> THEN <<x>>
    ELSE IF Head(list).quality >= x.quality THEN <<Head(list)>> \o Insert(x, Tail(list))
    ELSE <<x>> \o list

\* variant: an entry is put before its equals
RECURSIVE Sort_Unstable(_)
Sort_Unstable(list) ==
    IF list = <<>> THEN <<>>
    ELSE LET rest == Sort_Unstable(SubSeq(list, 1, Len(list) - 1))
             x == list[Len(list)]
             before == SelectSeq(rest, LAMBDA y : y.quality > x.quality)
             after == SelectSeq(rest, LAMBDA y : y.quality <= x.quality)
         IN before \o <<x>> \o after

\* .sort((a, b) => b.quality - a.quality): Array.prototype.sort is stable
RECURSIVE Sort(_)
Sort(list) ==
    IF list = <<>> THEN <<>>
    ELSE Insert(list[Len(list)], Sort(SubSeq(list, 1, Len(list) - 1)))

\* .filter(...) of the branch of the platform
Kept(platform, list) ==
    IF platform = "youtube"
        THEN SelectSeq(list, youtubeFilter)
        ELSE SelectSeq(list, otherFilter)

\* variant: youtube's entries are not asked for both streams
FormatsStep_NoStreams(platform, list) ==
    Sort(Descriptors(SelectSeq(list, otherFilter)))

\* lines 82-104: filter, map and sort of the branch of the platform
FormatsStep(platform, list) == Sort(Descriptors(Kept(platform, list)))

Placeholder == [formatId |-> "best", quality |-> 1]

\* lines 80-114: the formats of the response, for a document with a formats list
ResponseFormats(platform, info) ==
    LET formats == FormatsStep(platform, info.formats)
    IN IF Len(formats) = 0 /\ info.url THEN <<Placeholder>> ELSE formats

\* the TypeError of info.formats.filter when the document has no formats list
M_TypeError == <<"C", "a", "n", "n", "o", "t", " ", "r", "e", "a", "d", " ", "p", "r", "o", "p", "e", "r", "t", "i", "e", "s", " ", "o", "f", " ", "u", "n", "d", "e", "f", "i", "n", "e", "d">>

(***************************************************************************)
(* State                                                                   *)
(***************************************************************************)
VARIABLES
    now,            \* the value Date.now() returns, in ms since process start
    requestCounts,  \* the rate-limit map: address -> [count, resetTime]
    req,            \* the requests in flight or just answered, per slot
    dir,            \* the names of the files in DOWNLOAD_DIR
    cleanup,        \* the startup clean-up: readdir in flight, unlinks in flight
    seen,           \* history: per address, gated requests since its entry was (re)made
    admittedLog,    \* history: per address, arrival times of the requests admitted
                    \*          in the last RATE_LIMIT_WINDOW_MS
    lastGated       \* history: the gated request handled last

vars == <<now, requestCounts, req, dir, cleanup, seen, admittedLog, lastGated>>

NoPath == "none"

NoGated == [ip |-> "none", at |-> 0, ord |-> 0, admitted |-> FALSE, fresh |-> FALSE]

\* a slot holding no request
Idle ==
    [pc |-> "idle", route |-> "none", admitted |-> FALSE, url |-> UrlAbsent, status |-> 0,
     error |-> NoMessage, body |-> "none", detail |-> NoMessage, headersSent |-> FALSE,
     resEnded |-> FALSE, attachment |-> FALSE, path |-> NoPath, calls |-> <<>>,
     stream |-> "none", unlink |-> "none", sends |-> 0, platform |-> NoPlatform,
     info |-> NoInfo, formats |-> <<>>]

\* a request as the middleware sees it
NewReq(route) == [Idle EXCEPT !.pc = "limiter", !.route = route]

\* next(): the route handler starts and reads req.query.url into videoUrl
Handle(q, url) == [q EXCEPT !.pc = "handler", !.admitted = TRUE, !.url = url]

\* res.status(code).json({error: ...}): the response is sent and ended
Respond(q, code, body, detail) ==
    [q EXCEPT !.pc = "done", !.status = code, !.body = body, !.detail = detail,
              !.headersSent = TRUE, !.resEnded = TRUE, !.sends = @ + 1]

\* nothing of the request in slot r is still to run: no handler is suspended
\* and no callback is pending, so the slot can hold the next request
Quiescent(r) == req[r].pc \in {"idle", "done"} /\ req[r].unlink # "pending"

\* a new request takes the first slot that is free
FreeSlot(r) == Quiescent(r) /\ \A q \in 1..(r - 1) : ~Quiescent(q)

(***************************************************************************)
(* simpleRateLimiter                                                       *)
(***************************************************************************)
WindowExpired(entry, t) == t > entry.resetTime

\* variant: the comparison lets one request too many through
UnderLimit_Inclusive(entry) == entry.count <= RATE_LIMIT_MAX

UnderLimit(entry) == entry.count < RATE_LIMIT_MAX

\* variant: the expiry is not taken from the clock
NewEntry_NoClock(t) == [count |-> 1, resetTime |-> RATE_LIMIT_WINDOW_MS]

NewEntry(t) == [count |-> 1, resetTime |-> t + RATE_LIMIT_WINDOW_MS]

SetEntry(rc, ip, e) ==
    [a \in (DOMAIN rc) \cup {ip} |-> IF a = ip THEN e ELSE rc[a]]

\* variant: the increment is lost
simpleRateLimiter_NoIncrement(rc, ip, t) ==
    IF ip \notin DOMAIN rc \/ WindowExpired(rc[ip], t)
        THEN [counts |-> SetEntry(rc, ip, NewEntry(t)), admitted |-> TRUE, fresh |-> TRUE]
    ELSE IF UnderLimit(rc[ip])
        THEN [counts |-> rc, admitted |-> TRUE, fresh |-> FALSE]
    ELSE [counts |-> rc, admitted |-> FALSE, fresh |-> FALSE]

\* the map after the call, whether next() was called, whether the entry was (re)made
simpleRateLimiter(rc, ip, t) ==
    IF ip \notin DOMAIN rc \/ WindowExpired(rc[ip], t)
        THEN [counts |-> SetEntry(rc, ip, NewEntry(t)), admitted |-> TRUE, fresh |-> TRUE]
    ELSE IF UnderLimit(rc[ip])
        THEN [counts |-> SetEntry(rc, ip, [rc[ip] EXCEPT !.count = @ + 1]),
              admitted |-> TRUE, fresh |-> FALSE]
    ELSE [counts |-> rc, admitted |-> FALSE, fresh |-> FALSE]

\* the times of log that lie in the window of length RATE_LIMIT_WINDOW_MS ending at t
Recent(log, t) == SelectSeq(log, LAMBDA x : x >= t - RATE_LIMIT_WINDOW_MS)

\* The middleware runs for a request from ip that is put in slot r.  The
\* history is kept in the claims' terms: a request arrives later than the
\* entry's expiry, or no later.
LimiterStep(r, ip) ==
    LET res == simpleRateLimiter(requestCounts, ip, now)
        later == IF ip \in DOMAIN requestCounts
                    THEN now > requestCounts[ip].resetTime
                    ELSE TRUE
    IN
    /\ IF later THEN TRUE ELSE seen[ip] < RATE_LIMIT_MAX + MaxOver
    /\ requestCounts' = res.counts
    /\ seen' = [seen EXCEPT ![ip] = IF later THEN 1 ELSE @ + 1]
    /\ admittedLog' = IF res.admitted
                         THEN [admittedLog EXCEPT ![ip] = Append(@, now)]
                         ELSE admittedLog
    /\ lastGated' = [ip |-> ip, at |-> now, ord |-> seen'[ip],
                     admitted |-> res.admitted, fresh |-> later]

\* variant: the limiter answers 429 and goes on to the handler all the same
TooManyRequests_AndNext(q) ==
    [Respond(q, 429, "Too many requests, please try again later", NoMessage)
        EXCEPT !.pc = "info_tool", !.calls = <<[mode |-> "metadata", result |-> "pending"]>>]

TooManyRequests(q) == Respond(q, 429, "Too many requests, please try again later", NoMessage)

(***************************************************************************)
(* The clock                                                               *)
(***************************************************************************)
TicksSoFar == (now \div RATE_LIMIT_WINDOW_MS) + (now % RATE_LIMIT_WINDOW_MS)

Tick(d) ==
    /\ TicksSoFar < MaxTicks
    /\ now' = now + d
    /\ admittedLog' = [a \in Addrs |-> Recent(admittedLog[a], now')]
    /\ UNCHANGED <<requestCounts, req, dir, cleanup, seen, lastGated>>

(***************************************************************************)
(* GET /info                                                               *)
(***************************************************************************)
Invoke(mode) == [mode |-> mode, result |-> "pending"]

\* variant: the platform is not checked before the tool is invoked
infoHandler_NoPlatformCheck(q) ==
    IF q.url.kind = "absent"
        THEN Respond(q, 400, "No video URL provided", NoMessage)
    ELSE [q EXCEPT !.pc = "info_tool", !.platform = detectPlatform(q.url),
                   !.calls = <<Invoke("metadata")>>]

\* the handler up to `await youtubedl(...)`
infoHandler(q) ==
    IF q.url.kind = "absent"
        THEN Respond(q, 400, "No video URL provided", NoMessage)
    ELSE IF detectPlatform(q.url) = NoPlatform
        THEN Respond(q, 400, "Unsupported platform", NoMessage)
    ELSE [q EXCEPT !.pc = "info_tool", !.platform = detectPlatform(q.url),
                   !.calls = <<Invoke("metadata")>>]

\* variant: a request without url is answered 400 at no cost to the quota
InfoRequest_FreeWhenInvalid(r, ip, url) ==
    LET res == simpleRateLimiter(requestCounts, ip, now) IN
    /\ FreeSlot(r)
    /\ seen[ip] < RATE_LIMIT_MAX + MaxOver
    /\ requestCounts' = IF url.kind = "absent" /\ ip \in DOMAIN requestCounts
                            THEN requestCounts
                            ELSE res.counts
    /\ seen' = [seen EXCEPT ![ip] = @ + 1]
    /\ admittedLog' = IF res.admitted
                         THEN [admittedLog EXCEPT ![ip] = Append(@, now)]
                         ELSE admittedLog
    /\ lastGated' = [ip |-> ip, at |-> now, ord |-> seen'[ip],
                     admitted |-> res.admitted, fresh |-> ip \notin DOMAIN requestCounts]
    /\ req' = [req EXCEPT ![r] =
                 IF res.admitted
                     THEN infoHandler(Handle(NewReq("info"), url))
                     ELSE TooManyRequests(NewReq("info"))]
    /\ UNCHANGED <<now, dir, cleanup>>

InfoRequest(r, ip, url) ==
    /\ FreeSlot(r)
    /\ LimiterStep(r, ip)
    /\ req' = [req EXCEPT ![r] =
                 IF simpleRateLimiter(requestCounts, ip, now).admitted
                     THEN infoHandler(Handle(NewReq("info"), url))
                     ELSE TooManyRequests(NewReq("info"))]
    /\ UNCHANGED <<now, dir, cleanup>>

SetResult(calls, result) == [calls EXCEPT ![Len(calls)].result = result]

\* the tool's promise rejected: the error caught has message msg
Caught(q, msg) == [q EXCEPT !.calls = SetResult(@, "failed"), !.error = msg]

\* the catch block of /info
infoCatch(q, msg) == Respond(q, 500, "Failed to get video information", msg)

\* the tool returned the document info; without a formats list in it,
\* info.formats.filter throws inside the try block
InfoToolOk(r, info) ==
    /\ req[r].pc = "info_tool"
    /\ LET q == [req[r] EXCEPT !.calls = SetResult(@, "ok"), !.info = info] IN
       req' = [req EXCEPT ![r] =
                 IF info.hasFormats
                     THEN [q EXCEPT !.pc = "done", !.status = 200, !.body = "media descriptor",
                                    !.formats = ResponseFormats(q.platform, info),
                                    !.headersSent = TRUE, !.resEnded = TRUE,
                                    !.sends = @ + 1]
                     ELSE infoCatch([q EXCEPT !.error = M_TypeError], M_TypeError)]
    /\ UNCHANGED <<now, requestCounts, dir, cleanup, seen, admittedLog, lastGated>>

\* variant: a request that failed gives its place in the quota back
InfoToolFail_Refund(r, msg) ==
    /\ req[r].pc = "info_tool"
    /\ req' = [req EXCEPT ![r] = infoCatch(Caught(@, msg), msg)]
    /\ requestCounts' = [requestCounts EXCEPT ![Client].count = @ - 1]
    /\ UNCHANGED <<now, dir, cleanup, seen, admittedLog, lastGated>>

\* the tool failed with message msg
InfoToolFail(r, msg) ==
    /\ req[r].pc = "info_tool"
    /\ req' = [req EXCEPT ![r] = infoCatch(Caught(@, msg), msg)]
    /\ UNCHANGED <<now, requestCounts, dir, cleanup, seen, admittedLog, lastGated>>

(***************************************************************************)
(* GET /download                                                           *)
(***************************************************************************)
\* the names no request, file or pending deletion refers to: randomBytes(8)
\* draws from 2^64 values and never repeats a name that is still in use
UnusedIds(r) ==
    NewFileIds \ (dir \cup cleanup.pending \cup {req[q].path : q \in Reqs \ {r}})

\* variant: randomBytes may repeat a name that is in use
FreshIds_Reused(r) == NewFileIds

\* names are interchangeable: one unused name stands for the value drawn
FreshIds(r) == IF UnusedIds(r) = {} THEN {} ELSE {CHOOSE f \in UnusedIds(r) : TRUE}

\* the handler up to the first `await youtubedl(...)`; fileId is the value
\* crypto.randomBytes(8) returns
downloadHandler(q, fileId) ==
    IF q.url.kind = "absent"
        THEN Respond(q, 400, "No video URL provided", NoMessage)
    ELSE IF detectPlatform(q.url) = NoPlatform
        THEN Respond(q, 400, "Unsupported platform", NoMessage)
    ELSE [q EXCEPT !.pc = "dl_meta", !.platform = detectPlatform(q.url), !.path = fileId,
                   !.calls = <<Invoke("metadata")>>]

\* fileId is drawn only when the handler gets to randomBytes
DownloadRequest(r, ip, url, fileId) ==
    /\ FreeSlot(r)
    /\ IF simpleRateLimiter(requestCounts, ip, now).admitted
          /\ url.kind # "absent" /\ detectPlatform(url) # NoPlatform
          THEN fileId \in FreshIds(r)
          ELSE fileId = NoPath
    /\ LimiterStep(r, ip)
    /\ req' = [req EXCEPT ![r] =
                 IF simpleRateLimiter(requestCounts, ip, now).admitted
                     THEN downloadHandler(Handle(NewReq("download"), url), fileId)
                     ELSE TooManyRequests(NewReq("download"))]
    /\ UNCHANGED <<now, dir, cleanup>>

\* the catch block of /download
\* variant: only the first message is told apart
downloadCatch_OnePattern(q, msg) ==
    IF Includes(msg, P_VideoUnavailable)
        THEN Respond(q, 400, "Video is unavailable or private", NoMessage)
    ELSE Respond(q, 500, "Failed to process video", msg)

downloadCatch(q, msg) ==
    IF Includes(msg, P_VideoUnavailable)
        THEN Respond(q, 400, "Video is unavailable or private", NoMessage)
    ELSE IF Includes(msg, P_ThisVideoIsNotAvailable)
        THEN Respond(q, 400, "This video is not available or may be private", NoMessage)
    ELSE Respond(q, 500, "Failed to process video", msg)

\* the metadata call returned: the title is sanitized and the tool is invoked
\* again, in download mode, with output: outputPath
MetadataOk(r) ==
    /\ req[r].pc = "dl_meta"
    /\ req' = [req EXCEPT ![r] =
                 [@ EXCEPT !.pc = "dl_fetch",
                           !.calls = Append(SetResult(@, "ok"), Invoke("download"))]]
    /\ UNCHANGED <<now, requestCounts, dir, cleanup, seen, admittedLog, lastGated>>

\* variant: a failed metadata call is tried again
MetadataFail_Retry(r, msg) ==
    /\ req[r].pc = "dl_meta"
    /\ req' = [req EXCEPT ![r] =
                 [@ EXCEPT !.calls = Append(SetResult(@, "failed"), Invoke("metadata"))]]
    /\ UNCHANGED <<now, requestCounts, dir, cleanup, seen, admittedLog, lastGated>>

MetadataFail(r, msg) ==
    /\ req[r].pc = "dl_meta"
    /\ req' = [req EXCEPT ![r] =
                 downloadCatch(Caught(@, msg), msg)]
    /\ UNCHANGED <<now, requestCounts, dir, cleanup, seen, admittedLog, lastGated>>

\* the download call returned, the file is at outputPath: the attachment
\* headers are set, the read stream is created and piped to the response
DownloadOk(r) ==
    /\ req[r].pc = "dl_fetch"
    /\ dir' = dir \cup {req[r].path}
    /\ req' = [req EXCEPT ![r] =
                 [@ EXCEPT !.pc = "streaming", !.calls = SetResult(@, "ok"),
                           !.attachment = TRUE, !.stream = "opening"]]
    /\ UNCHANGED <<now, requestCounts, cleanup, seen, admittedLog, lastGated>>

\* the download call failed; partial: it had written a file at outputPath
DownloadFail(r, msg, partial) ==
    /\ req[r].pc = "dl_fetch"
    /\ dir' = IF partial THEN dir \cup {req[r].path} ELSE dir
    /\ req' = [req EXCEPT ![r] =
                 downloadCatch(Caught(@, msg), msg)]
    /\ UNCHANGED <<now, requestCounts, cleanup, seen, admittedLog, lastGated>>

(***************************************************************************)
(* The file stream of a download and its two listeners                     *)
(***************************************************************************)
\* the stream opened the file (it holds a descriptor from now on)
StreamOpen(r) ==
    /\ req[r].pc = "streaming" /\ req[r].stream = "opening"
    /\ req[r].path \in dir
    /\ req' = [req EXCEPT ![r].stream = "flowing"]
    /\ UNCHANGED <<now, requestCounts, dir, cleanup, seen, admittedLog, lastGated>>

\* pipe writes the first chunk: the head (200 and the attachment headers) goes out
StreamData(r) ==
    /\ req[r].pc = "streaming" /\ req[r].stream = "flowing"
    /\ ~req[r].headersSent
    /\ req' = [req EXCEPT ![r] = [@ EXCEPT !.headersSent = TRUE, !.status = 200,
                                           !.body = "file", !.sends = @ + 1]]
    /\ UNCHANGED <<now, requestCounts, dir, cleanup, seen, admittedLog, lastGated>>

\* 'end': pipe's own listener ends the response, then the handler's listener
\* calls fs.unlink(outputPath, ...)
StreamEnd(r) ==
    /\ req[r].pc = "streaming" /\ req[r].stream = "flowing"
    /\ req' = [req EXCEPT ![r] = [@ EXCEPT !.pc = "done", !.stream = "ended",
                                           !.headersSent = TRUE, !.status = 200,
                                           !.body = "file", !.resEnded = TRUE,
                                           !.sends = IF req[r].headersSent THEN @ ELSE @ + 1,
                                           !.unlink = "pending"]]
    /\ UNCHANGED <<now, requestCounts, dir, cleanup, seen, admittedLog, lastGated>>

\* variant: the listener answers 500 without looking at res.headersSent
StreamError_Always500(r) ==
    /\ req[r].pc = "streaming"
    /\ req' = [req EXCEPT ![r] =
                 [Respond(@, 500, "Error streaming file", NoMessage)
                     EXCEPT !.stream = "failed"]]
    /\ UNCHANGED <<now, requestCounts, dir, cleanup, seen, admittedLog, lastGated>>

\* 'error' (the open failed, or a read did): the handler's listener answers 500
\* if the head is not out yet, and does nothing else
StreamError(r) ==
    /\ req[r].pc = "streaming"
    /\ req' = [req EXCEPT ![r] =
                 IF ~req[r].headersSent
                     THEN [Respond(@, 500, "Error streaming file", NoMessage)
                             EXCEPT !.stream = "failed"]
                     ELSE [@ EXCEPT !.pc = "done", !.stream = "failed"]]
    /\ UNCHANGED <<now, requestCounts, dir, cleanup, seen, admittedLog, lastGated>>

\* the callback of the unlink issued at 'end'; ok: the file system allowed it
UnlinkDone(r, ok) ==
    /\ req[r].unlink = "pending"
    /\ LET removed == ok /\ req[r].path \in dir IN
       /\ dir' = IF removed THEN dir \ {req[r].path} ELSE dir
       /\ req' = [req EXCEPT ![r].unlink = IF removed THEN "ok" ELSE "failed"]
    /\ UNCHANGED <<now, requestCounts, cleanup, seen, admittedLog, lastGated>>

(***************************************************************************)
(* Startup clean-up of DOWNLOAD_DIR                                        *)
(***************************************************************************)
\* the callback of fs.readdir; err: the listing failed.  files is what the
\* directory holds when it is listed.
ReaddirDone(err) ==
    /\ cleanup.phase = "readdir"
    /\ cleanup' = [phase |-> "listed", pending |-> IF err THEN {} ELSE dir]
    /\ UNCHANGED <<now, requestCounts, req, dir, seen, admittedLog, lastGated>>

\* the callback of one fs.unlink of the clean-up
CleanupUnlinkDone(file, ok) ==
    /\ file \in cleanup.pending
    /\ cleanup' = [cleanup EXCEPT !.pending = @ \ {file}]
    /\ dir' = IF ok THEN dir \ {file} ELSE dir
    /\ UNCHANGED <<now, requestCounts, req, seen, admittedLog, lastGated>>

(***************************************************************************)
(* GET /health                                                             *)
(***************************************************************************)
\* variant: the route is registered behind the limiter, for the relay's client
Health_Gated(r) ==
    /\ FreeSlot(r)
    /\ requestCounts' = simpleRateLimiter(requestCounts, Client, now).counts
    /\ req' = [req EXCEPT ![r] =
                 [Respond(NewReq("health"), 200, "ok", NoMessage) EXCEPT !.admitted = TRUE]]
    /\ UNCHANGED <<now, dir, cleanup, seen, admittedLog, lastGated>>

\* the route has no middleware: the handler answers {status: "ok"} at once
Health(r) ==
    /\ FreeSlot(r)
    /\ req' = [req EXCEPT ![r] =
                 [Respond(NewReq("health"), 200, "ok", NoMessage) EXCEPT !.admitted = TRUE]]
    /\ UNCHANGED <<now, requestCounts, dir, cleanup, seen, admittedLog, lastGated>>

Init ==
    /\ now = 0
    /\ requestCounts = << >>
    /\ req = [r \in Reqs |-> Idle]
    /\ dir = OldFiles
    /\ cleanup = [phase |-> "readdir", pending |-> {}]
    /\ seen = [a \in Addrs |-> 0]
    /\ admittedLog = [a \in Addrs |-> <<>>]
    /\ lastGated = NoGated

Next ==
    \/ \E r \in Reqs, url \in RelayUrls : InfoRequest(r, Client, url)
    \/ \E r \in Reqs, info \in RelayResults : InfoToolOk(r, info)
    \/ \E r \in Reqs, msg \in ToolMessages : InfoToolFail(r, msg)
    \/ \E r \in Reqs, url \in RelayUrls, fileId \in NewFileIds \cup {NoPath} :
          DownloadRequest(r, Client, url, fileId)
    \/ \E r \in Reqs : MetadataOk(r)
    \/ \E r \in Reqs, msg \in ToolMessages : MetadataFail(r, msg)
    \/ \E r \in Reqs : DownloadOk(r)
    \/ \E r \in Reqs, msg \in ToolMessages, partial \in BOOLEAN :
          DownloadFail(r, msg, partial)
    \/ \E r \in Reqs : StreamOpen(r)
    \/ \E r \in Reqs : StreamData(r)
    \/ \E r \in Reqs : StreamEnd(r)
    \/ \E r \in Reqs : StreamError(r)
    \/ \E r \in Reqs, ok \in BOOLEAN : UnlinkDone(r, ok)
    \/ \E err \in BOOLEAN : ReaddirDone(err)
    \/ \E file \in OldFiles \cup NewFileIds, ok \in BOOLEAN : CleanupUnlinkDone(file, ok)

Spec == Init /\ [][Next]_vars

\* the limiter over time: requests of all addresses that are answered at once
NextWindow ==
    \/ \E d \in TickSteps : Tick(d)
    \/ \E ip \in Addrs : InfoRequest(1, ip, UrlAbsent)
    \/ \E ip \in Addrs : DownloadRequest(1, ip, UrlAbsent, NoPath)

SpecWindow == Init /\ [][NextWindow]_vars

\* the map over time: gated requests of all addresses and /health requests
NextFrame ==
    \/ \E d \in TickSteps : Tick(d)
    \/ \E ip \in Addrs : InfoRequest(1, ip, UrlAbsent)
    \/ Health(1)

SpecFrame == Init /\ [][NextFrame]_vars

\* /info alone, one request at a time, over every url and every document
NextInfo ==
    \/ \E url \in Urls : InfoRequest(1, Client, url)
    \/ \E info \in ToolResults : InfoToolOk(1, info)
    \/ \E msg \in ToolMessages : InfoToolFail(1, msg)

SpecInfo == Init /\ [][NextInfo]_vars

\* what the event loop and the operating system do for the request in slot r
\* once it is started: the tool's process exits, the stream emits its events,
\* the unlink completes
Callback(r) ==
    \/ MetadataOk(r)
    \/ \E msg \in ToolMessages : MetadataFail(r, msg)
    \/ DownloadOk(r)
    \/ \E msg \in ToolMessages, partial \in BOOLEAN : DownloadFail(r, msg, partial)
    \/ StreamOpen(r)
    \/ StreamData(r)
    \/ StreamEnd(r)
    \/ StreamError(r)
    \/ \E ok \in BOOLEAN : UnlinkDone(r, ok)

\* one download at a time, followed to its end: a pending callback is run by
\* the event loop sooner or later, while no client has to send a request
NextLive ==
    \/ \E fileId \in NewFileIds \cup {NoPath} : DownloadRequest(1, Client, UrlYoutube, fileId)
    \/ Callback(1)

SpecLive == Init /\ [][NextLive]_vars /\ WF_vars(Callback(1))

(***************************************************************************)
(* Claims about the rate limiter                                           *)
(***************************************************************************)
\* C1: counting from the gated request that created or re-created the entry
\* of its address, a gated request arriving no later than the entry's expiry
\* is admitted if it is one of the first RATE_LIMIT_MAX and rejected otherwise.
C1_FirstTenAdmittedRestRejected ==
    lastGated.ip \in Addrs =>
        (lastGated.admitted <=> lastGated.ord <= RATE_LIMIT_MAX)

\* the 11th request of a window arrives exactly at the expiry and is rejected
C1_Witness ==
    /\ lastGated.ip \in Addrs
    /\ lastGated.ord = RATE_LIMIT_MAX + 1
    /\ ~lastGated.admitted
    /\ lastGated.at = requestCounts[lastGated.ip].resetTime
    /\ now = lastGated.at

\* C2 as claimed: in every interval of RATE_LIMIT_WINDOW_MS at most
\* RATE_LIMIT_MAX requests of one address are admitted.  The interval that
\* ends now holds the admissions of every interval ending at an admission.
C2_RollingLimit ==
    \A ip \in Addrs : Len(Recent(admittedLog[ip], now)) <= RATE_LIMIT_MAX

\* the admissions of ip since its entry was (re)created
InWindow(ip) ==
    SelectSeq(admittedLog[ip],
              LAMBDA x : x >= requestCounts[ip].resetTime - RATE_LIMIT_WINDOW_MS)

\* C2 amended: the window is fixed, not rolling.  Between the creation of an
\* entry and its expiry at most RATE_LIMIT_MAX requests of the address are
\* admitted, and an interval of RATE_LIMIT_WINDOW_MS, which can span one
\* reset, holds at most twice as many.
C2_FixedWindowLimit ==
    \A ip \in Addrs :
        /\ Len(Recent(admittedLog[ip], now)) <= 2 * RATE_LIMIT_MAX
        /\ (ip \in DOMAIN requestCounts /\ now <= requestCounts[ip].resetTime)
              => Len(InWindow(ip)) <= RATE_LIMIT_MAX

\* an interval spanning a reset holds more than RATE_LIMIT_MAX admissions
C2_Witness ==
    \E ip \in Addrs :
        /\ Len(Recent(admittedLog[ip], now)) > RATE_LIMIT_MAX
        /\ ip \in DOMAIN requestCounts
        /\ now <= requestCounts[ip].resetTime
        /\ Len(InWindow(ip)) < Len(Recent(admittedLog[ip], now))

\* C3: a gated request arriving after its entry's expiry is admitted and
\* makes the entry anew, with count 1 and expiry = arrival + the window,
\* whatever the old count was; a step that handles no gated request (the
\* clock advancing) leaves every entry as it is.
C3_LazyReset ==
    [][ /\ \A ip \in DOMAIN requestCounts :
             (lastGated' # lastGated /\ lastGated'.ip = ip
                /\ now > requestCounts[ip].resetTime)
             => /\ lastGated'.admitted
                /\ requestCounts'[ip] =
                      [count |-> 1, resetTime |-> now + RATE_LIMIT_WINDOW_MS]
        /\ (now' # now \/ lastGated' = lastGated) => requestCounts' = requestCounts
      ]_vars

\* an exhausted entry (one admission at its creation, the other nine within
\* the last window) was made anew by a request after its expiry
C3_Witness ==
    /\ lastGated.ip \in Addrs
    /\ lastGated.fresh /\ lastGated.admitted
    /\ lastGated.at > RATE_LIMIT_WINDOW_MS
    /\ Len(admittedLog[lastGated.ip]) = RATE_LIMIT_MAX
    /\ requestCounts[lastGated.ip].count = 1

(***************************************************************************)
(* Claims about the relay                                                  *)
(***************************************************************************)
\* the request in slot r passed the limiter and the two checks of its url
Validated(q) ==
    q.admitted /\ q.url.kind # "absent" /\ detectPlatform(q.url) # NoPlatform

\* C4: a gated request the limiter rejects is answered 429 and nothing else
\* happens for it: the tool is not invoked, no 400 of the handler is
\* reported, no output path is made and no file stream opened.
C4_RejectedOnly429 ==
    \A r \in Reqs :
        (req[r].pc # "idle" /\ ~req[r].admitted) =>
            /\ req[r].pc = "done" /\ req[r].status = 429 /\ req[r].resEnded
            /\ req[r].calls = <<>>
            /\ req[r].path = NoPath
            /\ req[r].stream = "none" /\ req[r].unlink = "none"

\* a /download is rejected while another request is with the tool
C4_Witness ==
    \E r, o \in Reqs :
        /\ req[r].route = "download" /\ req[r].pc = "done" /\ ~req[r].admitted
        /\ req[r].status = 429
        /\ lastGated.ord > RATE_LIMIT_MAX /\ ~lastGated.admitted
        /\ req[o].pc \in {"info_tool", "dl_meta", "dl_fetch"}

\* C5: an admitted request whose url is missing or of no supported platform is
\* answered 400; the tool is not invoked for it and no output path is made.
C5_InvalidUrlOnly400 ==
    \A r \in Reqs :
        (req[r].admitted /\ ~Validated(req[r])) =>
            /\ req[r].pc = "done" /\ req[r].status = 400 /\ req[r].resEnded
            /\ req[r].body \in {"No video URL provided", "Unsupported platform"}
            /\ (req[r].body = "No video URL provided" <=> req[r].url.kind = "absent")
            /\ req[r].calls = <<>>
            /\ req[r].path = NoPath
            /\ req[r].stream = "none"

\* both routes answered 400: one for a missing url, one for an unsupported host
C5_Witness ==
    \E r, o \in Reqs :
        /\ req[r].route = "download" /\ req[r].admitted
        /\ req[r].url = UrlExample /\ req[r].status = 400
        /\ req[o].route = "info" /\ req[o].admitted
        /\ req[o].url = UrlAbsent /\ req[o].status = 400

\* C6 as claimed: the file of a download is at its path during the whole
\* streaming phase, and is gone once the unlink issued at 'end' succeeded.
C6_FileKeptUntilStreamEnd ==
    \A r \in Reqs :
        /\ req[r].pc = "streaming" => req[r].path \in dir
        /\ (req[r].stream = "ended" /\ req[r].unlink = "ok") => req[r].path \notin dir

\* C7 as claimed: after a failed file stream has been handled, the file of
\* the request is gone.
C7_FileGoneAfterStreamError ==
    \A r \in Reqs :
        (req[r].stream = "failed" /\ req[r].pc = "done") => req[r].path \notin dir

\* an invocation of the tool failed for the request
ToolFailed(q) == \E i \in 1..Len(q.calls) : q.calls[i].result = "failed"

\* C8 as claimed: after the error response to a download whose tool
\* invocation failed, no file is at the request's output path.
C8_NoFileAfterToolFailure ==
    \A r \in Reqs :
        (req[r].route = "download" /\ ToolFailed(req[r]) /\ req[r].pc = "done")
            => /\ req[r].status \in {400, 500}
               /\ req[r].path \notin dir

UpperCase == <<"A", "B", "C", "D", "E", "F", "G", "H", "I", "J", "K", "L", "M",
               "N", "O", "P", "Q", "R", "S", "T", "U", "V", "W", "X", "Y", "Z">>

LowerCase == <<"a", "b", "c", "d", "e", "f", "g", "h", "i", "j", "k", "l", "m",
               "n", "o", "p", "q", "r", "s", "t", "u", "v", "w", "x", "y", "z">>

ToLower(str) ==
    [i \in 1..Len(str) |->
        IF \E k \in 1..Len(UpperCase) : UpperCase[k] = str[i]
            THEN LowerCase[CHOOSE k \in 1..Len(UpperCase) : UpperCase[k] = str[i]]
            ELSE str[i]]

\* the two patterns as the claim words them, matched whatever the case
ClaimedPattern(msg) ==
    \/ Includes(ToLower(msg), <<"v", "i", "d", "e", "o", " ", "u", "n", "a", "v", "a", "i", "l", "a", "b", "l", "e">>)
    \/ Includes(ToLower(msg), <<"n", "o", "t", " ", "a", "v", "a", "i", "l", "a", "b", "l", "e">>)

C10_ToolCallsFixedAndOrdered ==
    \A r \in Reqs :
        LET q == req[r]
            c == q.calls
        IN
        /\ Len(c) <= 2
        /\ ~Validated(q) => c = <<>>
        /\ Validated(q) => (Len(c) >= 1 /\ c[1].mode = "metadata")
        /\ q.route = "info" => Len(c) <= 1
        /\ Len(c) = 2 => (c[1].result = "ok" /\ c[2].mode = "download")
        /\ (q.route = "download" /\ Len(c) = 1) => c[1].result # "ok"
        /\ (q.attachment \/ q.stream # "none" \/ q.status = 200) =>
               \A i \in 1..Len(c) : c[i].result = "ok"
        /\ (q.attachment \/ q.stream # "none") => Len(c) = 2

\* one download streamed after two calls, another ended by its failed first call
C10_Witness ==
    \E r, o \in Reqs :
        /\ req[r].stream = "ended" /\ Len(req[r].calls) = 2
        /\ req[o].route = "download" /\ req[o].pc = "done"
        /\ Len(req[o].calls) = 1 /\ req[o].calls[1].result = "failed"

(***************************************************************************)
(* Claims about requests in flight together                                *)
(***************************************************************************)
\* a handler is suspended at an await, or a stream or unlink of it is pending
Suspended(q) ==
    q.pc \in {"info_tool", "dl_meta", "dl_fetch", "streaming"} \/ q.unlink = "pending"

\* C11: the limiter's test and update are one step of the event loop.  However
\* the handlers of the requests of one address are suspended and resumed, the
\* count of the address is the number of its requests admitted in the window,
\* never more than RATE_LIMIT_MAX; a step that resumes a handler or runs a
\* callback leaves the map as it is, and a step that admits a request into a
\* running window adds exactly 1.
C11_LimiterAtomic ==
    /\ [](Client \in DOMAIN requestCounts =>
             /\ requestCounts[Client].count = Len(admittedLog[Client])
             /\ requestCounts[Client].count <= RATE_LIMIT_MAX)
    /\ [][ /\ lastGated' = lastGated => requestCounts' = requestCounts
           /\ (lastGated' # lastGated /\ lastGated'.admitted /\ ~lastGated'.fresh)
                 => requestCounts'[Client].count = requestCounts[Client].count + 1
         ]_vars

\* the quota is used up while two admitted requests are still suspended
C11_Witness ==
    /\ Client \in DOMAIN requestCounts
    /\ requestCounts[Client].count = RATE_LIMIT_MAX
    /\ Len(admittedLog[Client]) = RATE_LIMIT_MAX
    /\ \A r \in Reqs : req[r].admitted /\ Suspended(req[r])
    /\ \E r, o \in Reqs : req[r].pc = "streaming" /\ req[o].pc = "info_tool"

\* C12: downloads in flight together, also for the same url, never share a
\* file.  The output paths of different requests differ; a file appears in
\* the directory only at the path of the request whose download call is
\* running, and a request's unlink removes only the file at its own path
\* (the only other deletions are those of the startup clean-up).
C12_NoSharedFiles ==
    /\ [](\A r, o \in Reqs :
             (r # o /\ req[r].path # NoPath) => req[r].path # req[o].path)
    /\ [][ /\ \A f \in dir' \ dir :
                 \E r \in Reqs : req[r].path = f /\ req[r].pc = "dl_fetch"
                                   /\ req'[r].pc # "dl_fetch"
           /\ \A f \in dir \ dir' :
                 \/ f \in cleanup.pending /\ f \notin cleanup'.pending
                 \/ \E r \in Reqs : /\ req[r].path = f /\ req[r].stream = "ended"
                                      /\ req[r].unlink = "pending" /\ req'[r].unlink = "ok"
                                      /\ \A o \in Reqs \ {r} : req'[o] = req[o]
         ]_vars

\* two downloads of the same url stream at once, each from its own file
C12_Witness ==
    \E r, o \in Reqs :
        /\ r # o
        /\ req[r].url = UrlYoutube /\ req[o].url = UrlYoutube
        /\ req[r].stream = "flowing" /\ req[o].stream = "flowing"
        /\ req[r].path # req[o].path
        /\ {req[r].path, req[o].path} \subseteq dir

\* C13 as claimed: a download whose file stream failed has its response
\* finished sooner or later, by the 500 answer or by the connection being
\* closed.
C13_StreamFailureEndsResponse ==
    \A r \in Reqs : (req[r].stream = "failed") ~> req[r].resEnded

(***************************************************************************)
(* Claims about the platform and the formats of /info                      *)
(***************************************************************************)
\* hostname is the host h itself or a subdomain of it
IsHost(hostname, h) ==
    \/ hostname = h
    \/ /\ Len(hostname) > Len(h) + 1
       /\ SubSeq(hostname, Len(hostname) - Len(h), Len(hostname)) = <<".">> \o h

\* the tag of the platform that the url's host belongs to, as the claim has it
ClaimedPlatform(url) ==
    IF url.kind # "parsed" THEN NoPlatform
    ELSE IF IsHost(url.hostname, H_youtube_com) \/ IsHost(url.hostname, H_youtu_be)
        THEN "youtube"
    ELSE IF IsHost(url.hostname, H_twitter_com) \/ IsHost(url.hostname, H_x_com)
        THEN "twitter"
    ELSE IF IsHost(url.hostname, H_instagram_com) THEN "instagram"
    ELSE IF IsHost(url.hostname, H_facebook_com) \/ IsHost(url.hostname, H_fb_com)
        THEN "facebook"
    ELSE NoPlatform

\* C14 as claimed: the platform of a url is the tag of the platform whose
\* host its hostname is, and null for every other input.
C14_AsClaimed ==
    \A r \in Reqs :
        req[r].admitted =>
            /\ detectPlatform(req[r].url) = ClaimedPlatform(req[r].url)
            /\ req[r].platform = ClaimedPlatform(req[r].url)

\* some name of the list is a part of the hostname
HasPart(url, names) == \E h \in names : Includes(url.hostname, h)

\* C14 amended: the platform is found by looking for the names as parts of
\* the hostname, in the order youtube, twitter, instagram, facebook.  A url
\* whose hostname holds one of the names anywhere gets the tag of the first
\* platform that has such a name, so also a host of no platform like
\* netflix.com, which holds x.com; an absent url, a url that does not parse
\* and a hostname that holds none of the names get null, and the handler
\* answers those 400.
C14_SubstringMatch ==
    \A r \in Reqs :
        req[r].admitted =>
            LET url == req[r].url
                tag == detectPlatform(url)
                yt == HasPart(url, {H_youtube_com, H_youtu_be})
                tw == HasPart(url, {H_twitter_com, H_x_com})
                ig == HasPart(url, {H_instagram_com})
                fb == HasPart(url, {H_facebook_com, H_fb_com})
            IN
            /\ url.kind # "parsed" => tag = NoPlatform
            /\ url.kind = "parsed" =>
                  /\ tag = "youtube" <=> yt
                  /\ tag = "twitter" <=> (~yt /\ tw)
                  /\ tag = "instagram" <=> (~yt /\ ~tw /\ ig)
                  /\ tag = "facebook" <=> (~yt /\ ~tw /\ ~ig /\ fb)
                  /\ tag = NoPlatform <=> (~yt /\ ~tw /\ ~ig /\ ~fb)
            /\ req[r].platform = tag
            /\ tag = NoPlatform <=> (req[r].status = 400 /\ req[r].calls = <<>>)

\* the tool is invoked for netflix.com as a twitter url
C14_Witness ==
    /\ req[1].url = UrlNetflix
    /\ req[1].platform = "twitter"
    /\ req[1].pc = "info_tool"

\* the filter of the platform as the claims word it: for youtube, container
\* mp4 with a video and an audio stream; for the others, container mp4 or webm
Qualifies(platform, entry) ==
    IF platform = "youtube"
        THEN entry.ext = "mp4" /\ entry.vcodec # "none" /\ entry.acodec # "none"
        ELSE entry.ext \in {"mp4", "webm"}

\* the entries of the document that qualify; none if it has no formats list
Survivors(q) == SelectSeq(q.info.formats, LAMBDA e : Qualifies(q.platform, e))

\* the tool returned a document for the /info request q
Returned(q) == q.route = "info" /\ Len(q.calls) = 1 /\ q.calls[1].result = "ok"

\* C15 as claimed: when no entry of the document qualifies (also when its
\* formats list is empty or absent) and the document has a url, the answer
\* is 200 with the placeholder 'best' as its only format; when an entry
\* qualifies, the placeholder is not among the formats.
C15_PlaceholderWhenNothingSurvives ==
    \A r \in Reqs :
        Returned(req[r]) =>
            /\ (Survivors(req[r]) = <<>> /\ req[r].info.url) =>
                   /\ req[r].status = 200
                   /\ req[r].formats = <<Placeholder>>
            /\ Survivors(req[r]) # <<>> =>
                   \A i \in 1..Len(req[r].formats) : req[r].formats[i] # Placeholder

\* C16: the formats returned are the entries of the document that qualify
\* for the platform, each once, with the quality the tool gave (0 if it gave
\* none), in an order of non-increasing quality.  When no entry qualifies the
\* list is empty or, for a document with a url, the placeholder alone.
C16_FormatsFilteredAndSorted ==
    \A r \in Reqs :
        (Returned(req[r]) /\ req[r].info.hasFormats) =>
            LET out == req[r].formats
                kept == Survivors(req[r])
            IN
            /\ req[r].status = 200
            /\ kept = <<>> => out = IF req[r].info.url THEN <<Placeholder>> ELSE <<>>
            /\ kept # <<>> =>
                  /\ Len(out) = Len(kept)
                  /\ \A i \in 1..Len(kept) :
                        Cardinality({j \in 1..Len(out) :
                                        out[j].formatId = kept[i].format_id}) = 1
                  /\ \A j \in 1..Len(out) :
                        \E i \in 1..Len(kept) :
                            /\ out[j].formatId = kept[i].format_id
                            /\ out[j].quality =
                                  IF kept[i].quality = <<>> THEN 0 ELSE kept[i].quality[1]
                  /\ \A i, j \in 1..Len(out) : i < j => out[i].quality >= out[j].quality

\* a youtube document: the video-only entry is dropped and the two others
\* are returned with the one of higher quality first
C16_Witness ==
    /\ req[1].platform = "youtube"
    /\ req[1].info.formats = <<F22, F137, F18>>
    /\ req[1].status = 200
    /\ Len(req[1].formats) = 2
    /\ req[1].formats[1].formatId = "18" /\ req[1].formats[2].formatId = "22"

\* C17 as claimed: the step of filtering and sorting, applied to a list that
\* is its own output, returns that list.
C17_AsClaimed ==
    \A r \in Reqs :
        (Returned(req[r]) /\ req[r].info.hasFormats) =>
            LET out == FormatsStep(req[r].platform, req[r].info.formats)
            IN FormatsStep(req[r].platform, out) = out

\* C17 amended: selecting and ordering are idempotent each on its own list.
\* The entries of the tool that were kept are all kept when selected again,
\* and the formats returned are left as they are when sorted again, entries
\* of equal quality staying in the order the tool gave them.  The step as a
\* whole cannot be run on its own output: the descriptors returned have no
\* ext, vcodec or acodec, so the filter keeps none of them.
C17_SelectionAndOrderIdempotent ==
    \A r \in Reqs :
        (Returned(req[r]) /\ req[r].info.hasFormats) =>
            LET kept == Kept(req[r].platform, req[r].info.formats)
                out == FormatsStep(req[r].platform, req[r].info.formats)
            IN
            /\ Kept(req[r].platform, kept) = kept
            /\ Sort(out) = out
            /\ \A i, j \in 1..Len(kept) :
                  (i < j /\ QualityOr0(kept[i]) = QualityOr0(kept[j])) =>
                      \E m, n \in 1..Len(out) :
                          /\ m < n
                          /\ out[m].formatId = kept[i].format_id
                          /\ out[n].formatId = kept[j].format_id
            /\ Kept(req[r].platform, out) = <<>>
            /\ kept # <<>> => req[r].formats = out

\* two entries of equal quality (none given, and 0) are returned behind one
\* of higher quality, in the order the tool gave them
C17_Witness ==
    /\ req[1].platform = "youtube"
    /\ req[1].info.formats = <<F22, F59, F18>>
    /\ req[1].status = 200
    /\ Len(req[1].formats) = 3
    /\ req[1].formats[1].formatId = "18"
    /\ req[1].formats[2].formatId = "22" /\ req[1].formats[3].formatId = "59"

(***************************************************************************)
(* Claims about the startup clean-up and the answers                       *)
(***************************************************************************)
\* C18 as claimed: the startup clean-up removes only files left by a
\* previous run, never the file of a download of this run, however its
\* listing and its deletions fall among the requests; and a deletion that
\* fails takes no other pending deletion with it.
C18_OnlyOldFilesRemoved ==
    [][ /\ \A f \in cleanup.pending \ cleanup'.pending :
             (f \in dir /\ f \notin dir') => f \in OldFiles
        /\ Cardinality(cleanup.pending \ cleanup'.pending) <= 1
      ]_vars

\* C19: a request is answered at most once and with one outcome.  A status is
\* sent at most one time on every path, it is 200, 400, 429 or 500, once sent
\* it is not replaced, and no answer of a catch block or of the validation
\* follows the attachment headers or the stream.
C19_AnsweredAtMostOnce ==
    /\ [](\A r \in Reqs :
             /\ req[r].sends <= 1
             /\ req[r].sends = 1 <=> req[r].headersSent
             /\ req[r].status \in IF req[r].headersSent THEN {200, 400, 429, 500} ELSE {0}
             /\ req[r].resEnded => req[r].headersSent
             /\ req[r].attachment =>
                   /\ req[r].status \in {0, 200, 500}
                   /\ req[r].body \in {"none", "file", "Error streaming file"}
                   /\ req[r].status = 500 => req[r].stream = "failed")
    /\ [][ \A r \in Reqs :
             (req[r].headersSent /\ ~Quiescent(r)) =>
                 /\ req'[r].status = req[r].status
                 /\ req'[r].body = req[r].body
                 /\ req'[r].sends = req[r].sends
         ]_vars

\* a stream failed after the head was out and the status stayed 200, while
\* another failed before any data and was answered 500
C19_Witness ==
    \E r, o \in Reqs :
        /\ req[r].stream = "failed" /\ req[r].status = 200 /\ req[r].sends = 1
        /\ req[o].stream = "failed" /\ req[o].status = 500 /\ req[o].sends = 1
        /\ req[o].attachment

\* C20: the quota is used at admission, by both routes alike and whatever
\* becomes of the request.  Of the gated requests of an address in a window,
\* the first RATE_LIMIT_MAX are admitted and each adds one to the one count
\* of the address, whether it is answered 200, 400 or 500 or is still in
\* flight; after them a request on either route is answered 429.
C20_QuotaUsedAtAdmission ==
    Client \in DOMAIN requestCounts =>
        /\ seen[Client] <= RATE_LIMIT_MAX =>
              /\ requestCounts[Client].count = seen[Client]
              /\ lastGated.admitted
              /\ \A r \in Reqs : req[r].status # 429
        /\ seen[Client] > RATE_LIMIT_MAX =>
              /\ requestCounts[Client].count = RATE_LIMIT_MAX
              /\ ~lastGated.admitted
              /\ \E r \in Reqs : req[r].status = 429 /\ ~req[r].admitted
        /\ \A r \in Reqs : req[r].pc # "idle" => (req[r].admitted <=> req[r].status # 429)

\* after ten admitted requests of both routes, of which an /info was
\* answered 400 for its missing url, a /download is answered 429
C20_Witness ==
    \E r, o \in Reqs :
        /\ seen[Client] = RATE_LIMIT_MAX + 1
        /\ requestCounts[Client].count = RATE_LIMIT_MAX
        /\ req[r].route = "download" /\ req[r].status = 429
        /\ req[o].route = "info" /\ req[o].admitted /\ req[o].status = 400
        /\ req[o].url = UrlAbsent

(***************************************************************************)
(* Claims about the frame of the rate-limit map                            *)
(***************************************************************************)
\* the step handles a gated request
GatedStep == lastGated' # lastGated

\* the step handles a /health request
HealthStep == req'[1].route = "health" /\ req' # req

\* C21: a gated request of an address changes at most the entry of that
\* address and no entry of another; a request answered 429 leaves the map
\* as it is, count and expiry of its address included; a /health request is
\* answered 200 in every state of the map and leaves the map as it is.
C21_MapFrame ==
    /\ [](\A r \in Reqs :
             req[r].route = "health" =>
                 req[r].status = 200 /\ req[r].resEnded /\ req[r].sends = 1)
    /\ [][ /\ GatedStep =>
                 /\ DOMAIN requestCounts' = DOMAIN requestCounts \cup {lastGated'.ip}
                 /\ \A a \in DOMAIN requestCounts :
                       a # lastGated'.ip => requestCounts'[a] = requestCounts[a]
           /\ (GatedStep /\ ~lastGated'.admitted) =>
                 /\ requestCounts' = requestCounts
                 /\ req'[1].status = 429
           /\ HealthStep =>
                 /\ requestCounts' = requestCounts
                 /\ req'[1].status = 200
           /\ (~GatedStep /\ ~HealthStep) => requestCounts' = requestCounts
         ]_vars

\* /health is answered 200 after a request of an address was rejected, a
\* millisecond or more into its window, and the expiry of that address is
\* still the one set when its entry was made; the other address has an
\* entry of its own with quota left
C21_Witness ==
    \E a, b \in Addrs :
        /\ a # b
        /\ req[1].route = "health" /\ req[1].status = 200
        /\ lastGated.ip = a /\ ~lastGated.admitted /\ lastGated.at > 0
        /\ a \in DOMAIN requestCounts /\ b \in DOMAIN requestCounts
        /\ requestCounts[a].count = RATE_LIMIT_MAX
        /\ requestCounts[a].resetTime < lastGated.at + RATE_LIMIT_WINDOW_MS
        /\ requestCounts[b].count < RATE_LIMIT_MAX

=============================================================================
